---- MODULE Spec2Model ----
(***************************************************************************)
(* Application record lifecycle of userbase-server/app.js: createApp,      *)
(* createAppController, deleteApp and permanentDeleteApp against the apps  *)
(* table and the deleted-apps table of the store.                          *)
(*                                                                         *)
(* Every handler issues one request to the store and awaits it, so a       *)
(* handler is two steps: the call (gating, validation, building the        *)
(* request parameters, reading the clock) and the store's answer together  *)
(* with the handler's continuation (return or catch clause).               *)
(***************************************************************************)
EXTENDS Integers, Sequences, FiniteSets, TLC

\* ------------------------------------------------------------------ bounds

\* The clock (new Date()) runs from 0 to MaxClock.
MaxClock == 1

\* The number of identifiers uuidv4() hands out.
MaxUuid == 1
\* The number of invocations in flight at once.
MaxConcurrent == 2
\* The number of records in the users table, and the largest limit passed
\* to countNonDeletedAppUsers.
MaxUsers == 3
MaxLimit == 2

\* ------------------------------------------------------------------ inputs

\* The identifiers uuidv4() returns, in the order it returns them; none is
\* ever returned twice.
UuidPool == <<"uuid-1", "uuid-2", "uuid-3", "uuid-4">>

\* A string is a sequence of characters.
Whitespace == {" "}

\* The app names requests carry: absent/empty, blank, plain, the same with
\* leading and trailing whitespace, and a second plain name.
AppNames == {<<>>, <<" ">>, <<"a">>, <<" ", "a", " ">>, <<"b">>}

\* The app names delete requests carry.  deleteApp and permanentDeleteApp use
\* the name as the key without trimming it, so to them a blank name is one
\* more name with whitespace in it.
DeleteAppNames == AppNames \ {<<" ">>}

\* res.locals.admin['admin-id']: absent/empty or an admin's id.
AdminIds == {"", "admin-1"}

\* An app id that no record carries: what a caller names when it names a
\* wrong id.  (A caller of createApp that passes an id never seen before
\* gets exactly what uuidv4() would have given it, so createApp's explicit
\* ids are the ones already handed out.)
UnknownAppId == "x"

\* res.locals.subscription: absent, cancelling, not active, active.
NoSubscription == [present |-> FALSE, cancel_at_period_end |-> FALSE, status |-> ""]

Subscriptions ==
    { NoSubscription,
      [present |-> TRUE, cancel_at_period_end |-> TRUE, status |-> "active"],
      [present |-> TRUE, cancel_at_period_end |-> FALSE, status |-> "past_due"],
      [present |-> TRUE, cancel_at_period_end |-> FALSE, status |-> "active"] }

\* The request slots.
Procs == {"p1"}

VARIABLES
    apps,          \* the apps table: primary key <<admin-id, app-name>> -> item
    deletedApps,   \* the deleted-apps table: app-id -> tombstone item
    now,           \* the clock
    uuids,         \* how many identifiers uuidv4() has handed out
    reqs,          \* per slot: the request in flight or the last response
    retired,       \* history: the keys whose record was ever soft-deleted or
                   \* permanently deleted
    users,         \* the users table, in the order its app-id index returns it
    read           \* the read operation in progress or its result

readVars == <<users, read>>
vars == <<apps, deletedApps, now, uuids, reqs, retired, users, read>>

\* ------------------------------------------------------------ pure helpers

RECURSIVE TrimStart(_)
TrimStart(s) ==
    IF s = <<>> THEN s
    ELSE IF Head(s) \in Whitespace THEN TrimStart(Tail(s)) ELSE s

RECURSIVE TrimEnd(_)
TrimEnd(s) ==
    IF s = <<>> THEN s
    ELSE IF s[Len(s)] \in Whitespace THEN TrimEnd(SubSeq(s, 1, Len(s) - 1)) ELSE s

\* String.prototype.trim
TrimIdentity(s) == s
trim(s) == TrimEnd(TrimStart(s))

PaymentRequiredUnlessCancelling(subscription) ==
    \/ ~subscription.present
    \/ subscription.status # "active"

\* !subscription || subscription.cancel_at_period_end || subscription.status !== 'active'
PaymentRequired(subscription) ==
    \/ ~subscription.present
    \/ subscription.cancel_at_period_end
    \/ subscription.status # "active"

\* Key: { 'admin-id': adminId, 'app-name': appName }
Key(adminId, appName) == <<adminId, appName>>

\* const app = { 'admin-id', 'app-name', 'app-id', 'creation-date' }
App(adminId, trimmedAppName, appId, date) ==
    [adminId |-> adminId, appName |-> trimmedAppName, appId |-> appId,
     creationDate |-> date]

\* Item of permanentDeletedAppParams
PermanentDeletedApp(appId, adminId, appName) ==
    [appId |-> appId, adminId |-> adminId, appName |-> appName]

\* The identifiers handed out so far.
GeneratedIds == {UuidPool[i] : i \in 1..uuids}

\* ------------------------------------------------------------- the store

\* The errors a store request rejects with: name and message, the message a
\* sequence of tokens.
NoError == [name |-> "", message |-> <<>>]

ConditionalCheckFailedException ==
    [name |-> "ConditionalCheckFailedException",
     message |-> <<"The conditional request failed">>]

\* Any other rejection (throttling, network, internal error).
StoreFault ==
    [name |-> "InternalServerError", message |-> <<"Internal server error">>]

\* The rejection of a transactWrite: the message lists, in the order of
\* TransactItems (Delete, then Put), why each item was cancelled: "None" for
\* an item whose condition held, "ConditionalCheckFailed" for one whose
\* condition did not.
TransactionCanceledException(reasons) ==
    [name |-> "TransactionCanceledException",
     message |-> <<"Transaction cancelled, please refer cancellation reasons for specific reasons ",
                   "[", reasons[1], ", ", reasons[2], "]">>]

\* String.prototype.includes: pattern occurs contiguously in message.
includes(message, pattern) ==
    \E i \in 1..(Len(message) - Len(pattern) + 1) :
        SubSeq(message, i, i + Len(pattern) - 1) = pattern

\* createApp: ConditionExpression 'attribute_not_exists(#adminId)'
CreateAppConditionNone(table, key) == TRUE
CreateAppCondition(table, key) == key \notin DOMAIN table

\* deleteApp: 'attribute_exists(#adminId) and attribute_not_exists(deleted)'
DeleteAppConditionExistsOnly(table, key) == key \in DOMAIN table
DeleteAppCondition(table, key) ==
    key \in DOMAIN table /\ "deleted" \notin DOMAIN table[key]

\* permanentDeleteApp, Delete: 'attribute_exists(deleted) and #appId = :appId'
ExistingAppConditionIdOnly(table, key, appId) ==
    key \in DOMAIN table /\ table[key].appId = appId
ExistingAppCondition(table, key, appId) ==
    /\ key \in DOMAIN table
    /\ "deleted" \in DOMAIN table[key]
    /\ table[key].appId = appId

\* permanentDeleteApp, Put: 'attribute_not_exists(#appId)'
PermanentDeletedAppConditionNone(table, appId) == TRUE
PermanentDeletedAppCondition(table, appId) == appId \notin DOMAIN table

\* put, update (SET deleted = :deleted) and delete of one item.
PutItem(table, key, item) == [k \in DOMAIN table \cup {key} |-> IF k = key THEN item ELSE table[k]]
SetDeletedLost(table, key, date) == table
SetDeleted(table, key, date) ==
    [table EXCEPT ![key] = [f \in DOMAIN @ \cup {"deleted"} |-> IF f = "deleted" THEN date ELSE @[f]]]
DeleteItem(table, key) == [k \in DOMAIN table \ {key} |-> table[k]]

Reason(ok) == IF ok THEN "None" ELSE "ConditionalCheckFailed"

\* transactWrite applies all of its items or none: it commits when no item
\* has a reason to be cancelled.
TransactionCommitsDeleteAlone(reasons) == reasons[1] = "None"
TransactionCommits(reasons) == reasons = <<"None", "None">>

\* ------------------------------------------------------------- responses

\* res.send / res.end with no res.status, and createApp's return.
DefaultStatus == "Success"

Idle ==
    [op |-> "none", phase |-> "idle", adminId |-> "", appName |-> <<>>,
     keyName |-> <<>>, appId |-> "", date |-> 0, status |-> "", data |-> "",
     storeFault |-> FALSE]

Awaiting(op, adminId, appName, keyName, appId, date) ==
    [op |-> op, phase |-> "awaitStore", adminId |-> adminId, appName |-> appName,
     keyName |-> keyName, appId |-> appId, date |-> date, status |-> "",
     data |-> "", storeFault |-> FALSE]

\* The response to request r; storeFault records that the store failed for a
\* reason other than a condition.  The request's timestamp is dropped: it
\* has been written or discarded.
Response(r, status, data, fault) ==
    [r EXCEPT !.phase = "done", !.date = 0, !.status = status, !.data = data,
              !.storeFault = fault]

\* A response sent before any request to the store.
Rejection(op, status, data) ==
    [Idle EXCEPT !.op = op, !.phase = "done", !.status = status, !.data = data]

\* createApp's catch clause
CreateAppCatch(e) ==
    IF e.name = "ConditionalCheckFailedException"
    THEN <<"Conflict", "App already exists">>
    ELSE <<"Internal Server Error", "Failed to create app">>

\* deleteApp's catch clause
DeleteAppCatch(e) ==
    IF e.name = "ConditionalCheckFailedException"
    THEN <<"Not Found", "App not found">>
    ELSE <<"Internal Server Error", "Failed to delete app">>

\* permanentDeleteApp's catch clause
PermanentDeleteAppCatch(e) ==
    IF includes(e.message, <<"ConditionalCheckFailed", "]">>)
    THEN <<"Conflict", "App already permanently deleted">>
    ELSE <<"Internal Server Error", "Failed to permanently delete app">>

\* ------------------------------------------------------------------ state

\* LastEvaluatedKey / ExclusiveStartKey: the position in the queried
\* partition of the last item a query has examined; NoKey is their absence.
NoKey == 0

\* No read operation has been called.  items is the array a listing builds
\* (or the record getAppByAppId returns), queries the ExclusiveStartKey and
\* the LastEvaluatedKey of every query answered so far.
NoRead ==
    [op |-> "none", phase |-> "idle", adminId |-> "", appName |-> <<>>,
     appId |-> "", limit |-> 0, startKey |-> NoKey, items |-> <<>>, count |-> 0,
     queries |-> <<>>, status |-> "", data |-> "", fatal |-> FALSE]

Init ==
    /\ apps = <<>>
    /\ deletedApps = <<>>
    /\ now = 0
    /\ uuids = 0
    /\ reqs = [p \in Procs |-> Idle]
    /\ retired = {}
    /\ users = <<>>
    /\ read = NoRead

\* new Date() moves on.
Tick ==
    /\ now < MaxClock
    /\ now' = now + 1
    /\ UNCHANGED <<apps, deletedApps, uuids, reqs, retired, readVars>>

\* createApp up to its await of ddbClient.put.
CreateApp(p, appName, adminId, appId) ==
    /\ reqs' =
         [reqs EXCEPT ![p] =
            IF appName = <<>> \/ adminId = ""
            THEN Rejection("createApp", "Bad Request", "Missing required items")
            ELSE IF trim(appName) = <<>>
            THEN Rejection("createApp", "Bad Request", "App name cannot be blank")
            ELSE Awaiting("createApp", adminId, appName, trim(appName), appId, now)]
    /\ UNCHANGED <<apps, deletedApps, now, retired>>

\* createApp(appName, adminId, appId) with an appId passed by the caller.
CallCreateApp(p) ==
    /\ reqs[p].phase # "awaitStore"
    /\ \E appName \in AppNames, adminId \in AdminIds, appId \in GeneratedIds :
          CreateApp(p, appName, adminId, appId)
    /\ UNCHANGED <<uuids, readVars>>

\* createAppController: the subscription gate, then createApp(appName, adminId)
\* with appId = uuidv4().
CreateAppController(p, subscription, appName, adminId) ==
    IF PaymentRequired(subscription)
    THEN /\ reqs' = [reqs EXCEPT ![p] =
                      Rejection("createApp", "Payment Required",
                                "Pay subscription fee to create an app.")]
         /\ UNCHANGED <<apps, deletedApps, now, uuids, retired>>
    ELSE /\ uuids < MaxUuid
         /\ uuids' = uuids + 1
         /\ CreateApp(p, appName, adminId, UuidPool[uuids + 1])

\* A request whose subscription does not pass is answered before its body
\* is read, whatever the body.
CallCreateAppController(p) ==
    /\ reqs[p].phase # "awaitStore"
    /\ \E subscription \in Subscriptions :
          IF PaymentRequired(subscription)
          THEN CreateAppController(p, subscription, <<>>, "")
          ELSE \E appName \in AppNames, adminId \in AdminIds :
                  CreateAppController(p, subscription, appName, adminId)
    /\ UNCHANGED readVars

\* The store's answer to createApp's put, and createApp's return or catch.
PutApp(p) ==
    /\ reqs[p].phase = "awaitStore"
    /\ reqs[p].op = "createApp"
    /\ \E fault \in BOOLEAN :
          LET r == reqs[p]
              key == Key(r.adminId, r.keyName)
              e == IF fault THEN StoreFault
                   ELSE IF CreateAppCondition(apps, key) THEN NoError
                   ELSE ConditionalCheckFailedException
          IN IF e = NoError
             THEN /\ apps' = PutItem(apps, key, App(r.adminId, r.keyName, r.appId, r.date))
                  /\ reqs' = [reqs EXCEPT ![p] = Response(r, DefaultStatus, "app", FALSE)]
             ELSE /\ apps' = apps
                  /\ reqs' = [reqs EXCEPT ![p] =
                               Response(r, CreateAppCatch(e)[1], CreateAppCatch(e)[2], fault)]
    /\ UNCHANGED <<deletedApps, now, uuids, retired, readVars>>

\* deleteApp up to its await of ddbClient.update.
DeleteApp(p, subscription, appName, adminId) ==
    /\ reqs' =
         [reqs EXCEPT ![p] =
            IF PaymentRequired(subscription)
            THEN Rejection("deleteApp", "Payment Required",
                           "Pay subscription fee to delete an app.")
            ELSE IF appName = <<>> \/ adminId = ""
            THEN Rejection("deleteApp", "Bad Request", "Missing required items")
            ELSE Awaiting("deleteApp", adminId, appName, appName, "", now)]
    /\ UNCHANGED <<apps, deletedApps, now, uuids, retired>>

CallDeleteApp(p) ==
    /\ reqs[p].phase # "awaitStore"
    /\ \E subscription \in Subscriptions :
          IF PaymentRequired(subscription)
          THEN DeleteApp(p, subscription, <<>>, "")
          ELSE \E appName \in DeleteAppNames, adminId \in AdminIds :
                  DeleteApp(p, subscription, appName, adminId)
    /\ UNCHANGED readVars

\* The store's answer to deleteApp's update, and deleteApp's response.
UpdateApp(p) ==
    /\ reqs[p].phase = "awaitStore"
    /\ reqs[p].op = "deleteApp"
    /\ \E fault \in BOOLEAN :
          LET r == reqs[p]
              key == Key(r.adminId, r.keyName)
              e == IF fault THEN StoreFault
                   ELSE IF DeleteAppCondition(apps, key) THEN NoError
                   ELSE ConditionalCheckFailedException
          IN IF e = NoError
             THEN /\ apps' = SetDeleted(apps, key, r.date)
                  /\ retired' = retired \cup {key}
                  /\ reqs' = [reqs EXCEPT ![p] = Response(r, DefaultStatus, "", FALSE)]
             ELSE /\ apps' = apps
                  /\ retired' = retired
                  /\ reqs' = [reqs EXCEPT ![p] =
                               Response(r, DeleteAppCatch(e)[1], DeleteAppCatch(e)[2], fault)]
    /\ UNCHANGED <<deletedApps, now, uuids, readVars>>

\* permanentDeleteApp up to its await of ddbClient.transactWrite.
PermanentDeleteApp(p, subscription, appName, appId, adminId) ==
    /\ reqs' =
         [reqs EXCEPT ![p] =
            IF PaymentRequired(subscription)
            THEN Rejection("permanentDeleteApp", "Payment Required",
                           "Pay subscription fee to permanently delete an app.")
            ELSE IF appName = <<>> \/ appId = "" \/ adminId = ""
            THEN Rejection("permanentDeleteApp", "Bad Request", "Missing required items")
            ELSE Awaiting("permanentDeleteApp", adminId, appName, appName, appId, 0)]
    /\ UNCHANGED <<apps, deletedApps, now, uuids, retired>>

CallPermanentDeleteApp(p) ==
    /\ reqs[p].phase # "awaitStore"
    /\ \E subscription \in Subscriptions :
          IF PaymentRequired(subscription)
          THEN PermanentDeleteApp(p, subscription, <<>>, "", "")
          ELSE \E appName \in DeleteAppNames, appId \in GeneratedIds \cup {UnknownAppId, ""},
                  adminId \in AdminIds :
                  PermanentDeleteApp(p, subscription, appName, appId, adminId)
    /\ UNCHANGED readVars

\* The store's answer to permanentDeleteApp's transactWrite, and the response.
TransactWrite(p) ==
    /\ reqs[p].phase = "awaitStore"
    /\ reqs[p].op = "permanentDeleteApp"
    /\ \E fault \in BOOLEAN :
          LET r == reqs[p]
              key == Key(r.adminId, r.keyName)
              reasons == <<Reason(ExistingAppCondition(apps, key, r.appId)),
                           Reason(PermanentDeletedAppCondition(deletedApps, r.appId))>>
              e == IF fault THEN StoreFault
                   ELSE IF reasons = <<"None", "None">> THEN NoError
                   ELSE TransactionCanceledException(reasons)
          IN /\ IF ~fault /\ TransactionCommits(reasons)
                THEN /\ apps' = DeleteItem(apps, key)
                     /\ retired' = retired \cup {key}
                     /\ IF reasons[2] = "None"
                        THEN deletedApps' =
                               PutItem(deletedApps, r.appId,
                                       PermanentDeletedApp(r.appId, r.adminId, r.keyName))
                        ELSE deletedApps' = deletedApps
                ELSE /\ apps' = apps
                     /\ deletedApps' = deletedApps
                     /\ retired' = retired
             /\ IF e = NoError
                THEN reqs' = [reqs EXCEPT ![p] = Response(r, DefaultStatus, "", FALSE)]
                ELSE reqs' = [reqs EXCEPT ![p] =
                               Response(r, PermanentDeleteAppCatch(e)[1],
                                        PermanentDeleteAppCatch(e)[2], fault)]
    /\ UNCHANGED <<now, uuids, readVars>>

Next ==
    \/ Tick
    \/ \E p \in Procs : CallCreateApp(p)
    \/ \E p \in Procs : CallCreateAppController(p)
    \/ \E p \in Procs : PutApp(p)
    \/ \E p \in Procs : CallDeleteApp(p)
    \/ \E p \in Procs : UpdateApp(p)
    \/ \E p \in Procs : CallPermanentDeleteApp(p)
    \/ \E p \in Procs : TransactWrite(p)

Spec == Init /\ [][Next]_vars

\* ------------------------------------------- the handlers before the store

\* The store and the slot after nothing, after a createApp, after its
\* deleteApp and after its permanentDeleteApp.
CreatedApp == App("admin-1", <<"a">>, UuidPool[1], 0)
CreateRequest == Awaiting("createApp", "admin-1", <<"a">>, <<"a">>, UuidPool[1], 0)
DeleteRequest == Awaiting("deleteApp", "admin-1", <<"a">>, <<"a">>, "", 0)
PermanentDeleteRequest ==
    Awaiting("permanentDeleteApp", "admin-1", <<"a">>, <<"a">>, UuidPool[1], 0)
StoreStates ==
    LET key == Key("admin-1", <<"a">>)
        created == PutItem(<<>>, key, CreatedApp)
    IN { [apps |-> <<>>, deletedApps |-> <<>>, retired |-> {}, uuids |-> 0,
          req |-> Idle],
         [apps |-> created, deletedApps |-> <<>>, retired |-> {}, uuids |-> 1,
          req |-> Response(CreateRequest, DefaultStatus, "app", FALSE)],
         [apps |-> SetDeleted(created, key, 0), deletedApps |-> <<>>,
          retired |-> {key}, uuids |-> 1,
          req |-> Response(DeleteRequest, DefaultStatus, "", FALSE)],
         [apps |-> <<>>,
          deletedApps |-> PutItem(<<>>, UuidPool[1],
                                  PermanentDeletedApp(UuidPool[1], "admin-1", <<"a">>)),
          retired |-> {key}, uuids |-> 1,
          req |-> Response(PermanentDeleteRequest, DefaultStatus, "", FALSE)] }

InitCalls ==
    /\ \E st \in StoreStates :
          /\ apps = st.apps
          /\ deletedApps = st.deletedApps
          /\ retired = st.retired
          /\ uuids = st.uuids
          /\ reqs = [p \in Procs |-> st.req]
    /\ now = 0
    /\ users = <<>>
    /\ read = NoRead

\* Each handler up to its first await: what it answers before it asks the
\* store does not depend on what the store does afterwards.
NextCalls ==
    \/ Tick
    \/ \E p \in Procs : CallCreateApp(p)
    \/ \E p \in Procs : CallCreateAppController(p)
    \/ \E p \in Procs : CallDeleteApp(p)
    \/ \E p \in Procs : CallPermanentDeleteApp(p)

SpecCalls == InitCalls /\ [][NextCalls]_vars

\* -------------------------------------------------- concurrent invocations

\* The invocations in flight: each calls once.
ConcProcs == 1..MaxConcurrent

ActiveSubscription ==
    [present |-> TRUE, cancel_at_period_end |-> FALSE, status |-> "active"]

\* The raw names that address the key ("admin-1", "a") in createApp.
SameKeyNames == {<<"a">>, <<" ", "a", " ">>}

InitConcurrent ==
    /\ \E st \in StoreStates :
          /\ apps = st.apps
          /\ deletedApps = st.deletedApps
          /\ retired = st.retired
          /\ uuids = st.uuids
    /\ reqs = [p \in ConcProcs |-> Idle]
    /\ now = 0
    /\ users = <<>>
    /\ read = NoRead

\* The invocations in flight are all of operation op.
AllOf(op) == \A q \in ConcProcs : reqs[q].op \in {"none", op}

\* createApp(appName, adminId): appId defaults to uuidv4().
ConcurrentCreateApp(p) ==
    /\ reqs[p].phase = "idle"
    /\ AllOf("createApp")
    /\ uuids < Len(UuidPool)
    /\ uuids' = uuids + 1
    /\ \E appName \in SameKeyNames :
          CreateApp(p, appName, "admin-1", UuidPool[uuids + 1])
    /\ UNCHANGED readVars

ConcurrentDeleteApp(p) ==
    /\ reqs[p].phase = "idle"
    /\ AllOf("deleteApp")
    /\ DeleteApp(p, ActiveSubscription, <<"a">>, "admin-1")
    /\ UNCHANGED readVars

ConcurrentPermanentDeleteApp(p) ==
    /\ reqs[p].phase = "idle"
    /\ AllOf("permanentDeleteApp")
    /\ PermanentDeleteApp(p, ActiveSubscription, <<"a">>, UuidPool[1], "admin-1")
    /\ UNCHANGED readVars

\* The store serialises the requests: it answers them one at a time, in any
\* order.
NextConcurrent ==
    \/ Tick
    \/ \E p \in ConcProcs : ConcurrentCreateApp(p)
    \/ \E p \in ConcProcs : ConcurrentDeleteApp(p)
    \/ \E p \in ConcProcs : ConcurrentPermanentDeleteApp(p)
    \/ \E p \in ConcProcs : PutApp(p)
    \/ \E p \in ConcProcs : UpdateApp(p)
    \/ \E p \in ConcProcs : TransactWrite(p)

SpecConcurrent == InitConcurrent /\ [][NextConcurrent]_vars

\* ------------------------------------------------------------ the queries

Min(a, b) == IF a < b THEN a ELSE b

\* A user record: the attributes the queries look at.
User(userId, appId, deleted, seedNotSavedYet) ==
    [userId |-> userId, appId |-> appId, deleted |-> deleted,
     seedNotSavedYet |-> seedNotSavedYet]

\* A live user, a deleted one and one whose seed is not saved yet, of the
\* first app; a live user of the second.
UserKinds ==
    { User(0, UuidPool[1], FALSE, FALSE), User(0, UuidPool[1], TRUE, FALSE),
      User(0, UuidPool[1], FALSE, TRUE), User(0, UuidPool[2], FALSE, FALSE) }

UserTables ==
    UNION { { [i \in 1..n |-> [kinds[i] EXCEPT !.userId = i]] :
                kinds \in [1..n -> UserKinds] } : n \in 0..MaxUsers }

\* The apps tables the queries run against: empty, one active record, one
\* soft-deleted record, two records with their own ids, and two records
\* sharing one id (createApp stores the id its caller passes).
AppTables ==
    LET a == Key("admin-1", <<"a">>)
        b == Key("admin-1", <<"b">>)
        created == PutItem(<<>>, a, CreatedApp)
    IN { <<>>, created, SetDeleted(created, a, 0),
         PutItem(created, b, App("admin-1", <<"b">>, UuidPool[2], 0)),
         PutItem(created, b, App("admin-1", <<"b">>, UuidPool[1], 0)) }

\* The sort order of the app names in use.
NameOrder == << <<"a">>, <<"b">> >>

\* KeyConditionExpression '#adminId = :adminId' on the apps table: the
\* admin's records in the order of their sort key.
AppsOf(adminId) ==
    LET names == SelectSeq(NameOrder, LAMBDA n : Key(adminId, n) \in DOMAIN apps)
    IN [i \in 1..Len(names) |-> apps[Key(adminId, names[i])]]

\* KeyConditionExpression '#appId = :appId' on the app-id index of the apps
\* table (every record belongs to admin-1) and of the users table.
AppsByIdFirst(appId) ==
    LET found == SelectSeq(AppsOf("admin-1"), LAMBDA app : app.appId = appId)
    IN IF Len(found) > 1 THEN <<found[1]>> ELSE found
AppsById(appId) == SelectSeq(AppsOf("admin-1"), LAMBDA app : app.appId = appId)
UsersOf(appId) == SelectSeq(users, LAMBDA user : user.appId = appId)

\* FilterExpression 'attribute_not_exists(deleted) and
\* attribute_not_exists(#seedNotSavedYet)'
NonDeleted(user) == ~user.deleted /\ ~user.seedNotSavedYet

\* The answers the store may give to a query of partition from startKey: it
\* examines n items, at most Limit when a Limit is set (limit # 0) and at
\* least one when any is left, and returns a LastEvaluatedKey unless it has
\* run into the partition's end; a page cut exactly at the end may still
\* carry one.
QueryOutput(partition, startKey, n, lastKey) ==
    [Items |-> SubSeq(partition, startKey + 1, startKey + n),
     LastEvaluatedKey |-> lastKey]

Query(partition, startKey, limit) ==
    LET left == Len(partition) - startKey
        sizes == IF left <= 0 THEN {0}
                 ELSE 1..(IF limit # 0 THEN Min(limit, left) ELSE left)
    IN UNION { { QueryOutput(partition, startKey, n, lastKey) :
                   lastKey \in IF n = 0 THEN {NoKey}
                               ELSE IF n < left THEN {startKey + n}
                               ELSE {NoKey, startKey + n} } : n \in sizes }

\* The same query with the FilterExpression and Select 'COUNT': the filter is
\* applied to the items examined, after the Limit.
QueryCount(partition, startKey, limit) ==
    { [Count |-> Len(SelectSeq(output.Items, NonDeleted)),
       LastEvaluatedKey |-> output.LastEvaluatedKey] :
        output \in Query(partition, startKey, limit) }

\* An element of a JavaScript array of records: a record, or an array of
\* records.
Record(item) == [array |-> FALSE, of |-> <<item>>]
Records(Items) == [i \in 1..Len(Items) |-> Record(Items[i])]

\* Array.prototype.push(Items): Items becomes the array's last element.
push(array, Items) == Append(array, [array |-> TRUE, of |-> Items])

\* params.ExclusiveStartKey = response.LastEvaluatedKey
ExclusiveStartKeyKept(r, response) == r.startKey
ExclusiveStartKey(r, response) == response.LastEvaluatedKey

\* let items = response.Items; while (response.LastEvaluatedKey) { ...;
\* items.push(response.Items) }: the call r after one more answer.
Listed(r, response) ==
    [r EXCEPT
       !.items = IF r.queries = <<>> THEN Records(response.Items)
                 ELSE push(@, response.Items),
       !.queries = Append(@, <<r.startKey, response.LastEvaluatedKey>>),
       !.startKey = IF response.LastEvaluatedKey # NoKey
                    THEN ExclusiveStartKey(r, response) ELSE @,
       !.phase = IF response.LastEvaluatedKey # NoKey THEN "awaitQuery" ELSE "done",
       !.status = IF response.LastEvaluatedKey # NoKey THEN "" ELSE "Success"]

CountedUncapped(r, response) ==
    LET count == IF r.queries = <<>> THEN response.Count
                 ELSE r.count + response.Count
        again == (r.limit = 0 \/ count < r.limit) /\ response.LastEvaluatedKey # NoKey
    IN [r EXCEPT
          !.count = count,
          !.queries = Append(@, <<r.startKey, response.LastEvaluatedKey>>),
          !.startKey = IF again THEN ExclusiveStartKey(r, response) ELSE @,
          !.phase = IF again THEN "awaitQuery" ELSE "done",
          !.status = IF again THEN "" ELSE "returned"]

\* let count = response.Count; while ((!limit || count < limit) &&
\* response.LastEvaluatedKey) { ...; count = limit ? Math.min(limit, count +
\* response.Count) : count + response.Count }
Counted(r, response) ==
    LET count == IF r.queries = <<>> THEN response.Count
                 ELSE IF r.limit # 0 THEN Min(r.limit, r.count + response.Count)
                 ELSE r.count + response.Count
        again == (r.limit = 0 \/ count < r.limit) /\ response.LastEvaluatedKey # NoKey
    IN [r EXCEPT
          !.count = count,
          !.queries = Append(@, <<r.startKey, response.LastEvaluatedKey>>),
          !.startKey = IF again THEN ExclusiveStartKey(r, response) ELSE @,
          !.phase = IF again THEN "awaitQuery" ELSE "done",
          !.status = IF again THEN "" ELSE "returned"]

\* The call r ends with this status.
Ended(r, status, data) == [r EXCEPT !.phase = "done", !.status = status, !.data = data]

writeVars == <<apps, deletedApps, now, uuids, reqs, retired>>

InitRead ==
    /\ apps \in AppTables
    /\ deletedApps = <<>>
    /\ retired = {k \in DOMAIN apps : "deleted" \in DOMAIN apps[k]}
    /\ uuids = Cardinality({apps[k].appId : k \in DOMAIN apps})
    /\ reqs = [p \in Procs |-> Idle]
    /\ now = 0
    /\ users \in UserTables
    /\ read = NoRead

\* listApps up to its first await.
CallListApps ==
    /\ read.phase \in {"idle", "done"}
    /\ read' = [NoRead EXCEPT !.op = "listApps", !.phase = "awaitQuery",
                              !.adminId = "admin-1"]
    /\ UNCHANGED <<writeVars, users>>

\* The store's answer to a query of listApps, and what the loop does next.
ListAppsQuery ==
    /\ read.op = "listApps"
    /\ read.phase = "awaitQuery"
    /\ \E fault \in BOOLEAN :
          IF fault
          THEN read' = Ended(read, "Internal Server Error", "Failed to list apps")
          ELSE \E response \in Query(AppsOf(read.adminId), read.startKey, 0) :
                  read' = Listed(read, response)
    /\ UNCHANGED <<writeVars, users>>

\* listAppUsers up to its await of getApp.
CallListAppUsers ==
    /\ read.phase \in {"idle", "done"}
    /\ \E appName \in DeleteAppNames :
          read' = [NoRead EXCEPT !.op = "listAppUsers", !.phase = "awaitGet",
                                 !.adminId = "admin-1", !.appName = appName]
    /\ UNCHANGED <<writeVars, users>>

\* !app || app['deleted']
AppMissing(table, key) == key \notin DOMAIN table
AppNotFound(table, key) == key \notin DOMAIN table \/ "deleted" \in DOMAIN table[key]

\* getApp's answer in listAppUsers: the get rejects on a fault and on an
\* empty key attribute; 'if (!app || app['deleted'])' answers 404.
GetApp ==
    /\ read.op = "listAppUsers"
    /\ read.phase = "awaitGet"
    /\ \E fault \in BOOLEAN :
          LET key == Key(read.adminId, read.appName)
          IN read' =
               IF fault \/ read.appName = <<>>
               THEN Ended(read, "Internal Server Error", "Failed to list app users")
               ELSE IF AppNotFound(apps, key)
               THEN Ended(read, "Not Found", "App not found")
               ELSE [read EXCEPT !.phase = "awaitQuery", !.appId = apps[key].appId]
    /\ UNCHANGED <<writeVars, users>>

\* The store's answer to a query of listAppUsers, and what the loop does next.
ListAppUsersQuery ==
    /\ read.op = "listAppUsers"
    /\ read.phase = "awaitQuery"
    /\ \E fault \in BOOLEAN :
          IF fault
          THEN read' = Ended(read, "Internal Server Error", "Failed to list app users")
          ELSE \E response \in Query(UsersOf(read.appId), read.startKey, 0) :
                  read' = Listed(read, response)
    /\ UNCHANGED <<writeVars, users>>

\* getAppByAppId up to its await.
CallGetAppByAppId ==
    /\ read.phase \in {"idle", "done"}
    /\ \E appId \in {UuidPool[1], UuidPool[2], UnknownAppId} :
          read' = [NoRead EXCEPT !.op = "getAppByAppId", !.phase = "awaitQuery",
                                 !.appId = appId]
    /\ UNCHANGED <<writeVars, users>>

\* The store's answer to getAppByAppId's query, and its return or throw; a
\* returned null is an empty items.
GetAppByAppIdQuery ==
    /\ read.op = "getAppByAppId"
    /\ read.phase = "awaitQuery"
    /\ \E fault \in BOOLEAN :
          LET Items == AppsById(read.appId)
          IN read' =
               IF fault THEN Ended(read, "thrown", "Internal server error")
               ELSE IF Len(Items) = 0 THEN Ended(read, "returned", "null")
               ELSE IF Len(Items) > 1
               THEN [Ended(read, "thrown", "Too many apps found") EXCEPT !.fatal = TRUE]
               ELSE [Ended(read, "returned", "app") EXCEPT !.items = <<Record(Items[1])>>]
    /\ UNCHANGED <<writeVars, users>>

\* countNonDeletedAppUsers(appId, limit) up to its first await; limit 0 is
\* a limit left out.
CallCountNonDeletedAppUsers ==
    /\ read.phase \in {"idle", "done"}
    /\ \E appId \in {UuidPool[1], UuidPool[2]}, limit \in 0..MaxLimit :
          read' = [NoRead EXCEPT !.op = "countNonDeletedAppUsers",
                                 !.phase = "awaitQuery", !.appId = appId,
                                 !.limit = limit]
    /\ UNCHANGED <<writeVars, users>>

\* The store's answer to a query of countNonDeletedAppUsers, and what the
\* loop does next; there is no catch.
CountQuery ==
    /\ read.op = "countNonDeletedAppUsers"
    /\ read.phase = "awaitQuery"
    /\ \E fault \in BOOLEAN :
          IF fault
          THEN read' = Ended(read, "thrown", "Internal server error")
          ELSE \E response \in QueryCount(UsersOf(read.appId), read.startKey, read.limit) :
                  read' = Counted(read, response)
    /\ UNCHANGED <<writeVars, users>>

NextRead ==
    \/ CallListApps
    \/ ListAppsQuery
    \/ CallListAppUsers
    \/ GetApp
    \/ ListAppUsersQuery
    \/ CallGetAppByAppId
    \/ GetAppByAppIdQuery
    \/ CallCountNonDeletedAppUsers
    \/ CountQuery

SpecRead == InitRead /\ [][NextRead]_vars

\* ------------------------------------------------------- claim vocabulary

Keys == DOMAIN apps
IsDeleted(table, k) == k \in DOMAIN table /\ "deleted" \in DOMAIN table[k]
IsActive(table, k) == k \in DOMAIN table /\ "deleted" \notin DOMAIN table[k]
TablesUnchanged == apps' = apps /\ deletedApps' = deletedApps

\* Slot p's store request is answered in this step.
Answered(p, op) ==
    /\ reqs[p].phase = "awaitStore"
    /\ reqs[p].op = op
    /\ reqs'[p].phase = "done"

\* raw is name with whitespace around it, and name has none at its ends.
TrimsTo(raw, name) ==
    /\ name # <<>>
    /\ Head(name) \notin Whitespace
    /\ name[Len(name)] \notin Whitespace
    /\ \E i \in 0..Len(raw), j \in 0..Len(raw) :
          /\ i <= j
          /\ SubSeq(raw, i + 1, j) = name
          /\ \A m \in 1..i : raw[m] \in Whitespace
          /\ \A m \in (j + 1)..Len(raw) : raw[m] \in Whitespace

\* ------------------------------------------------------------------ claims

\* C1: createApp for an admin and a raw name that trims to the app-name of an
\* existing record (active or soft-deleted) is answered Conflict, 'App
\* already exists' (unless the store itself fails), and leaves the apps table
\* and the deleted-apps table as they were.
C1_CreateExistingConflicts ==
    [][\A p \in Procs : \A k \in Keys :
          (Answered(p, "createApp") /\ reqs[p].adminId = k[1]
              /\ TrimsTo(reqs[p].appName, k[2]))
          => /\ TablesUnchanged
             /\ ~reqs'[p].storeFault =>
                   /\ reqs'[p].status = "Conflict"
                   /\ reqs'[p].data = "App already exists"]_vars

C1_Witness ==
    \E p \in Procs :
        LET r == reqs[p] IN
        /\ r.op = "createApp" /\ r.phase = "done" /\ r.status = "Conflict"
        /\ r.appName # r.keyName
        /\ IsDeleted(apps, Key(r.adminId, r.keyName))

C4_HardDeleteOfActiveConflicts ==
    [][\A p \in Procs :
          LET k == Key(reqs[p].adminId, reqs[p].keyName) IN
          (Answered(p, "permanentDeleteApp") /\ IsActive(apps, k)
              /\ apps[k].appId = reqs[p].appId /\ ~reqs'[p].storeFault)
          => /\ reqs'[p].status = "Conflict"
             /\ TablesUnchanged]_vars

\* C5: permanentDeleteApp for a soft-deleted record with an appId other than
\* the record's is answered Conflict (unless the store itself fails) and
\* changes neither table.
C5_HardDeleteWrongIdConflicts ==
    [][\A p \in Procs :
          LET k == Key(reqs[p].adminId, reqs[p].keyName) IN
          (Answered(p, "permanentDeleteApp") /\ IsDeleted(apps, k)
              /\ apps[k].appId # reqs[p].appId /\ ~reqs'[p].storeFault)
          => /\ reqs'[p].status = "Conflict"
             /\ TablesUnchanged]_vars

\* C6: deleteApp on an active record succeeds and sets deleted to the
\* request's timestamp, changing nothing else; deleteApp on a soft-deleted
\* record or on a key with no record is answered Not Found, 'App not found',
\* and leaves the apps table as it was (unless the store itself fails, which
\* changes nothing either).
C6_SoftDeleteOnce ==
    [][\A p \in Procs :
          Answered(p, "deleteApp")
          => LET k == Key(reqs[p].adminId, reqs[p].keyName) IN
             /\ deletedApps' = deletedApps
             /\ IF reqs'[p].storeFault THEN apps' = apps
                ELSE IF IsActive(apps, k)
                THEN /\ reqs'[p].status = DefaultStatus
                     /\ DOMAIN apps' = DOMAIN apps
                     /\ \A k2 \in DOMAIN apps \ {k} : apps'[k2] = apps[k2]
                     /\ IsDeleted(apps', k)
                     /\ apps'[k].deleted = reqs[p].date
                     /\ \A f \in DOMAIN apps[k] : apps'[k][f] = apps[k][f]
                ELSE /\ reqs'[p].status = "Not Found"
                     /\ reqs'[p].data = "App not found"
                     /\ apps' = apps]_vars

C6_Witness ==
    \E p \in Procs :
        LET r == reqs[p] IN
        /\ r.op = "deleteApp" /\ r.phase = "done" /\ r.status = "Not Found"
        /\ IsDeleted(apps, Key(r.adminId, r.keyName))
        /\ apps[Key(r.adminId, r.keyName)].deleted < now

\* C7, as claimed: a key whose record was ever soft-deleted or permanently
\* deleted never again holds an active record.
C7_RetiredKeyNeverActive ==
    \A k \in retired : ~IsActive(apps, k)

\* C7, amended: a soft-deleted record never becomes active: in every step it
\* stays as it is or leaves the table; and an active record appears only at
\* a key that holds no record, by a createApp.
C7_SoftDeletedNeverReactivated ==
    [][/\ \A k \in DOMAIN apps :
            IsDeleted(apps, k) => (k \notin DOMAIN apps' \/ apps'[k] = apps[k])
       /\ \A k \in DOMAIN apps' :
            (IsActive(apps', k) /\ ~IsActive(apps, k))
            => /\ k \notin DOMAIN apps
               /\ \E p \in Procs :
                     /\ Answered(p, "createApp")
                     /\ Key(reqs[p].adminId, reqs[p].keyName) = k]_vars

C7_Witness ==
    \E p \in Procs :
        LET r == reqs[p] IN
        /\ r.op = "createApp" /\ r.phase = "done" /\ r.status = DefaultStatus
        /\ Key(r.adminId, r.keyName) \in retired
        /\ IsActive(apps, Key(r.adminId, r.keyName))

\* C8: no two records of the apps table have the same app-id.
C8_AppIdUnique ==
    \A k1 \in DOMAIN apps, k2 \in DOMAIN apps :
        apps[k1].appId = apps[k2].appId => k1 = k2

\* C9: no record of the apps table has an app-id for which the deleted-apps
\* table holds a tombstone.
C9_RetiredIdStaysRetired ==
    \A id \in DOMAIN deletedApps : \A k \in DOMAIN apps : apps[k].appId # id

\* C10: a tombstone, once in the deleted-apps table, stays there unchanged;
\* a permanentDeleteApp naming an app-id that has a tombstone fails (with
\* Conflict unless the store itself fails) and changes neither table.
C10_TombstoneImmutable ==
    [][/\ \A id \in DOMAIN deletedApps :
            id \in DOMAIN deletedApps' /\ deletedApps'[id] = deletedApps[id]
       /\ \A p \in Procs :
            (Answered(p, "permanentDeleteApp") /\ reqs[p].appId \in DOMAIN deletedApps)
            => /\ reqs'[p].status # DefaultStatus
               /\ ~reqs'[p].storeFault => reqs'[p].status = "Conflict"
               /\ TablesUnchanged]_vars

C10_Witness ==
    \E p \in Procs :
        LET r == reqs[p]
            k == Key(r.adminId, r.keyName) IN
        /\ r.op = "permanentDeleteApp" /\ r.phase = "done" /\ r.status = "Conflict"
        /\ r.appId \in DOMAIN deletedApps
        /\ Key(deletedApps[r.appId].adminId, deletedApps[r.appId].appName) # k
        /\ IsDeleted(apps, k)
        /\ apps[k].appId = r.appId

\* s is not empty and holds nothing but whitespace.
Blank(s) == s # <<>> /\ \A i \in 1..Len(s) : s[i] \in Whitespace

\* Slot p has answered without a request to the store.
AnsweredWithoutRequest(p, status, data) ==
    /\ reqs'[p].phase = "done"
    /\ reqs'[p].status = status
    /\ reqs'[p].data = data
    /\ TablesUnchanged

\* C12: createApp with a non-empty name of whitespace only is rejected with
\* 400 'App name cannot be blank', and with 400 'Missing required items' when
\* the name or the admin id is empty; in both cases no put is issued and the
\* apps table is unchanged.
C12_BlankNameRejected ==
    [][\A p \in Procs, appName \in AppNames, adminId \in AdminIds,
          appId \in {UuidPool[i] : i \in 1..Len(UuidPool)} :
          CreateApp(p, appName, adminId, appId) =>
            /\ (Blank(appName) /\ adminId # "") =>
                  AnsweredWithoutRequest(p, "Bad Request", "App name cannot be blank")
            /\ (appName = <<>> \/ adminId = "") =>
                  AnsweredWithoutRequest(p, "Bad Request", "Missing required items")]_vars

C12_Witness ==
    \E p \in Procs :
        /\ reqs[p].op = "createApp"
        /\ reqs[p].phase = "done"
        /\ reqs[p].status = "Bad Request"
        /\ reqs[p].data = "App name cannot be blank"
        /\ apps = <<>>

\* The admin's subscription is there, is not ending at the period's end and
\* is active.
Paying(subscription) ==
    /\ subscription.present
    /\ ~subscription.cancel_at_period_end
    /\ subscription.status = "active"

\* Slot p has answered with this status without a request to the store.
RejectedWithoutRequest(p, status) ==
    /\ reqs'[p].phase = "done"
    /\ reqs'[p].status = status
    /\ TablesUnchanged

\* C19: createAppController, deleteApp and permanentDeleteApp respond Payment
\* Required and issue no store request whenever the subscription is absent,
\* is set to cancel at the period's end, or has a status other than 'active'.
C19_UnpaidIsRejected ==
    [][\A p \in Procs, subscription \in Subscriptions :
          ~Paying(subscription) =>
            \A appName \in AppNames, adminId \in AdminIds :
              /\ CreateAppController(p, subscription, appName, adminId) =>
                    RejectedWithoutRequest(p, "Payment Required")
              /\ DeleteApp(p, subscription, appName, adminId) =>
                    RejectedWithoutRequest(p, "Payment Required")
              /\ \A appId \in GeneratedIds \cup {UnknownAppId, ""} :
                    PermanentDeleteApp(p, subscription, appName, appId, adminId) =>
                      RejectedWithoutRequest(p, "Payment Required")]_vars

C19_Witness ==
    \E p \in Procs :
        /\ reqs[p].op = "permanentDeleteApp"
        /\ reqs[p].phase = "done"
        /\ reqs[p].status = "Payment Required"
        /\ \E k \in DOMAIN apps : IsDeleted(apps, k)

\* The keys of a table whose item this step has added, removed or changed.
Written(before, after) ==
    {k \in DOMAIN before \cup DOMAIN after :
        \/ k \notin DOMAIN before
        \/ k \notin DOMAIN after
        \/ before[k] # after[k]}

\* What one successful write of each operation changes: createApp adds one
\* record, deleteApp changes one record in place, permanentDeleteApp's single
\* transaction removes one record and adds one tombstone.
OneWrite(op) ==
    /\ Cardinality(Written(apps, apps')) = 1
    /\ \A k \in Written(apps, apps') :
          CASE op = "createApp" -> k \notin DOMAIN apps
            [] op = "deleteApp" -> k \in DOMAIN apps /\ k \in DOMAIN apps'
            [] OTHER -> k \notin DOMAIN apps'
    /\ IF op = "permanentDeleteApp"
       THEN /\ Cardinality(Written(deletedApps, deletedApps')) = 1
            /\ DOMAIN deletedApps \subseteq DOMAIN deletedApps'
       ELSE deletedApps' = deletedApps

\* C17: each invocation of createApp, deleteApp or permanentDeleteApp issues
\* at most one write request and never retries: a pending request is answered
\* in one step that ends the invocation; a step that does not answer a
\* request writes nothing; a successful answer is exactly one write, and any
\* failure (validation, payment required, condition failure, store fault)
\* leaves both tables unchanged.
C17_AtMostOneWrite ==
    [][\A p \in Procs :
          /\ reqs[p].phase # "awaitStore" => TablesUnchanged
          /\ reqs[p].phase = "awaitStore" /\ reqs'[p] # reqs[p] =>
                /\ reqs'[p].phase = "done"
                /\ reqs'[p].op = reqs[p].op
                /\ IF reqs'[p].status = "Success"
                   THEN OneWrite(reqs[p].op)
                   ELSE TablesUnchanged
          /\ reqs'[p].phase = "done" /\ reqs'[p].status # "Success" => TablesUnchanged]_vars

C17_Witness ==
    \E p \in Procs :
        /\ reqs[p].phase = "done"
        /\ reqs[p].op = "deleteApp"
        /\ reqs[p].storeFault
        /\ reqs[p].status = "Internal Server Error"
        /\ IsActive(apps, Key(reqs[p].adminId, reqs[p].keyName))

\* In this step slot p, which shows a successful createApp, calls deleteApp
\* with the same admin and the same raw name, and the call reaches the store.
DeletesWhatItCreated(p) ==
    /\ reqs[p].op = "createApp"
    /\ reqs[p].phase = "done"
    /\ reqs[p].status = "Success"
    /\ reqs'[p].op = "deleteApp"
    /\ reqs'[p].phase = "awaitStore"
    /\ reqs'[p].adminId = reqs[p].adminId
    /\ reqs'[p].appName = reqs[p].appName

\* C20: create and soft-delete address the same record for the same raw
\* name: a deleteApp by the same admin with the raw name of the createApp
\* that has just succeeded is keyed at the active record createApp stored, so
\* that it succeeds and sets deleted on that record.
C20_DeleteFindsCreatedRecord ==
    [][\A p \in Procs :
          DeletesWhatItCreated(p) =>
            LET key == Key(reqs'[p].adminId, reqs'[p].keyName)
            IN /\ IsActive(apps, key)
               /\ apps[key].appId = reqs[p].appId
               /\ apps[key].appName = reqs[p].keyName]_vars

\* The deleteApp of the raw name just created is answered Not Found while the
\* created record stays active.
C20_Lost ==
    \E p \in Procs :
        /\ reqs[p].op = "deleteApp"
        /\ reqs[p].phase = "done"
        /\ reqs[p].status = "Not Found"
        /\ \E k \in Keys :
              /\ k[1] = reqs[p].adminId
              /\ TrimsTo(reqs[p].appName, k[2])
              /\ reqs[p].appName # k[2]
              /\ IsActive(apps, k)

\* An invocation other than p has already been answered Success.
OtherSucceeded(p) ==
    \E q \in ConcProcs \ {p} : reqs[q].phase = "done" /\ reqs[q].status = "Success"

\* The answer an invocation gets when its condition fails.
ConditionFailure(op) ==
    CASE op = "createApp" -> "Conflict"
      [] op = "deleteApp" -> "Not Found"
      [] OTHER -> "Conflict"

\* The record at the contended key is what operation op starts from: none
\* for createApp, active for deleteApp, soft-deleted for permanentDeleteApp.
ReadyFor(op) ==
    LET key == Key("admin-1", <<"a">>)
    IN CASE op = "createApp" -> key \notin DOMAIN apps
         [] op = "deleteApp" -> IsActive(apps, key)
         [] OTHER -> IsDeleted(apps, key) /\ apps[key].appId = UuidPool[1]

\* C11: among concurrent invocations of the same mutating operation on the
\* same key at most one succeeds, and every other one that the store answers
\* gets the condition-failure outcome (Conflict for createApp and
\* permanentDeleteApp, Not Found for deleteApp); the first one answered from
\* the operation's starting record succeeds; there is never more than one
\* record at the key nor more than one tombstone.
C11_OneWinner ==
    [][\A p \in ConcProcs : \A op \in {"createApp", "deleteApp", "permanentDeleteApp"} :
          Answered(p, op) =>
            /\ reqs'[p].status = "Success" => ~OtherSucceeded(p)
            /\ (OtherSucceeded(p) /\ ~reqs'[p].storeFault) =>
                    reqs'[p].status = ConditionFailure(op)
            /\ (ReadyFor(op) /\ ~reqs'[p].storeFault) => reqs'[p].status = "Success"
            /\ Cardinality(DOMAIN apps') <= 1
            /\ Cardinality(DOMAIN deletedApps') <= 1
            /\ (op = "createApp" /\ reqs'[p].status = "Success") =>
                    /\ DOMAIN apps' = {Key("admin-1", <<"a">>)}
                    /\ apps'[Key("admin-1", <<"a">>)].appId = reqs[p].appId
            /\ (op = "permanentDeleteApp" /\ reqs'[p].status = "Success") =>
                    DOMAIN deletedApps' = {UuidPool[1]}]_vars

\* Every invocation has been answered: one permanentDeleteApp won, the
\* others got Conflict, and there is one tombstone.
C11_Witness ==
    /\ DOMAIN reqs = ConcProcs
    /\ \A p \in ConcProcs : reqs[p].op = "permanentDeleteApp" /\ reqs[p].phase = "done"
    /\ \E p \in ConcProcs :
          /\ reqs[p].status = "Success"
          /\ \A q \in ConcProcs \ {p} : reqs[q].status = "Conflict"
    /\ Cardinality(DOMAIN deletedApps) = 1

\* M: the users of the app that are neither deleted nor waiting for their
\* seed to be saved.
Matching(appId) ==
    Cardinality({i \in DOMAIN users :
                    /\ users[i].appId = appId
                    /\ ~users[i].deleted
                    /\ ~users[i].seedNotSavedYet})

\* C13: countNonDeletedAppUsers(appId, limit) returns min(limit, M) for a
\* positive limit and M when the limit is left out, M being the number of
\* the app's users that pass the filter, however the store splits the
\* result into pages.
C13_CountIsCappedTotal ==
    (read.op = "countNonDeletedAppUsers" /\ read.phase = "done"
        /\ read.status = "returned")
    => read.count = IF read.limit > 0
                    THEN (IF read.limit < Matching(read.appId)
                          THEN read.limit ELSE Matching(read.appId))
                    ELSE Matching(read.appId)

\* A count that reached its limit over two queries or more, the first of
\* which examined one user that does not pass the filter.
C13_Witness ==
    /\ read.op = "countNonDeletedAppUsers"
    /\ read.phase = "done"
    /\ read.status = "returned"
    /\ read.limit = MaxLimit
    /\ read.count = MaxLimit
    /\ Len(read.queries) >= 2
    /\ read.queries[1] = <<NoKey, 1>>
    /\ UsersOf(read.appId)[1].deleted

\* The records a finished listing was to return, in the order of the query.
Listing ==
    IF read.op = "listApps" THEN AppsOf(read.adminId) ELSE UsersOf(read.appId)

\* C14: the array a listing loop has built when it answers Success is the
\* concatenation, in page order, of the single items of all the pages: it is
\* as long as the number of items and its i-th element is the i-th record;
\* with no matching record it is empty.
C14_ListingIsWholeSequence ==
    (read.op \in {"listApps", "listAppUsers"} /\ read.phase = "done"
        /\ read.status = "Success")
    => /\ Len(read.items) = Len(Listing)
       /\ \A i \in 1..Len(read.items) :
             /\ ~read.items[i].array
             /\ read.items[i].of = <<Listing[i]>>

\* A listing answered Success whose array holds a page as one element.
C14_NestedPage ==
    /\ read.op \in {"listApps", "listAppUsers"}
    /\ read.phase = "done"
    /\ read.status = "Success"
    /\ \E i \in 1..Len(read.items) : read.items[i].array

\* The keys of the records that carry this app-id.
KeysWithId(appId) == {k \in DOMAIN apps : apps[k].appId = appId}

\* C15: getAppByAppId, once its query is answered, returns null when no
\* record carries the app-id, returns the record when exactly one does, and
\* logs at fatal severity and throws, returning no record, when two or more
\* do.
C15_GetByIdZeroOrOne ==
    (read.op = "getAppByAppId" /\ read.phase = "done"
        /\ read.data # "Internal server error")
    => LET found == KeysWithId(read.appId)
       IN /\ found = {} =>
                read.status = "returned" /\ read.items = <<>> /\ ~read.fatal
          /\ Cardinality(found) = 1 =>
                /\ read.status = "returned"
                /\ ~read.fatal
                /\ \E k \in found : read.items = <<[array |-> FALSE, of |-> <<apps[k]>>]>>
          /\ Cardinality(found) >= 2 =>
                read.status = "thrown" /\ read.fatal /\ read.items = <<>>

C15_Witness ==
    /\ read.op = "getAppByAppId"
    /\ read.phase = "done"
    /\ read.status = "thrown"
    /\ read.fatal
    /\ Cardinality(KeysWithId(read.appId)) = 2

\* C16: listAppUsers, once its lookup is answered, responds 404 'App not
\* found' without any users query when there is no record at (admin-id,
\* app-name) or the record carries deleted; otherwise it queries the users of
\* the record's app-id, and its Success response carries that app-id.
C16_ListUsersOfLiveAppOnly ==
    (read.op = "listAppUsers" /\ read.phase # "awaitGet"
        /\ read.status # "Internal Server Error")
    => LET key == Key(read.adminId, read.appName)
       IN IF IsActive(apps, key)
          THEN /\ read.appId = apps[key].appId
               /\ read.phase = "done" =>
                     /\ read.status = "Success"
                     /\ read.queries # <<>>
                     /\ \A i \in 1..Len(read.items) :
                           \A j \in 1..Len(read.items[i].of) :
                              read.items[i].of[j].appId = apps[key].appId
          ELSE /\ read.phase = "done"
               /\ read.status = "Not Found"
               /\ read.data = "App not found"
               /\ read.queries = <<>>
               /\ read.items = <<>>

\* The app is soft-deleted and has users, and listAppUsers has answered 404.
C16_Witness ==
    /\ read.op = "listAppUsers"
    /\ read.phase = "done"
    /\ read.status = "Not Found"
    /\ IsDeleted(apps, Key(read.adminId, read.appName))
    /\ UsersOf(apps[Key(read.adminId, read.appName)].appId) # <<>>

\* The partition the loop in progress pages through.
Paged ==
    IF read.op = "listApps" THEN AppsOf(read.adminId) ELSE UsersOf(read.appId)

\* C18: every continuation loop (listApps, listAppUsers,
\* countNonDeletedAppUsers) is sequential and ends: the first query of a call
\* carries no start key, every later one carries the LastEvaluatedKey of the
\* response before it, the loop stops at the first response without a
\* LastEvaluatedKey (the count loop also once the count has reached the
\* limit), and it issues no more queries than the partition has items, plus
\* one.
C18_LoopFollowsTheKeys ==
    (read.op \in {"listApps", "listAppUsers", "countNonDeletedAppUsers"}
        /\ read.phase \in {"awaitQuery", "done"}
        /\ read.status \notin {"Internal Server Error", "Not Found", "thrown"})
    => LET n == Len(read.queries)
       IN /\ \A i \in 1..n :
                read.queries[i][1] = IF i = 1 THEN NoKey ELSE read.queries[i - 1][2]
          /\ \A i \in 1..(n - 1) : read.queries[i][2] # NoKey
          /\ \A i \in 1..n :
                read.queries[i][2] # NoKey => read.queries[i][2] > read.queries[i][1]
          /\ n <= Len(Paged) + 1
          /\ read.phase = "awaitQuery" =>
                /\ read.startKey = IF n = 0 THEN NoKey ELSE read.queries[n][2]
                /\ n > 0 => read.queries[n][2] # NoKey
                /\ (n > 0 /\ read.limit > 0) => read.count < read.limit
          /\ read.phase = "done" =>
                /\ n >= 1
                /\ \/ read.queries[n][2] = NoKey
                   \/ /\ read.op = "countNonDeletedAppUsers"
                      /\ read.limit > 0
                      /\ read.count >= read.limit

\* A count that stopped at its limit after two queries or more although the
\* last response carried a LastEvaluatedKey.
C18_Witness ==
    /\ read.op = "countNonDeletedAppUsers"
    /\ read.phase = "done"
    /\ read.status = "returned"
    /\ Len(read.queries) >= 2
    /\ read.queries[Len(read.queries)][2] # NoKey
    /\ read.count = read.limit

====
